---- MODULE Spec2Model ----
(***************************************************************************)
(* Whiteboard backend (src/index.js): the room HTTP endpoints              *)
(* (create-room, verify-room) and the Socket.IO relay (join-room,          *)
(* drawing-data, canvas-data, clear-canvas, disconnect).                   *)
(*                                                                         *)
(* Strings are sequences of one-character strings, so that toUpperCase()   *)
(* and trim() are computed and not assumed.  Every `await` on the store is *)
(* a suspension point: the handler's synchronous prefix is one action, the *)
(* store operation together with the silent part of the continuation is    *)
(* another one, and other handlers interleave in between.                  *)
(***************************************************************************)
EXTENDS Integers, Sequences, FiniteSets, TLC

\* ---------------------------------------------------------------- bounds
\* Length of a generated room code (6 in the source, shortened here).
CodeLen == 1
\* Number of HTTP requests that can be in flight at the same time.
NumReqs == 2
\* Number of Socket.IO connections.
NumSockets == 2
\* Number of socket handlers that can be suspended on the store at once.
MaxPending == 2

\* ------------------------------------------------------ program constants
\* Attempts of the code-generation loop (`attempts < 10`).
MaxAttempts == 10

\* --------------------------------------------------------------- strings
\* The alphabet of genRoomCode (`chars`), cut down to two symbols.
chars == <<"A", "B">>

Space == " "

\* String.prototype.toUpperCase on one character.
UpperChar(c) ==
  CASE c = "a" -> "A"
    [] c = "b" -> "B"
    [] OTHER -> c

LowerChar(c) ==
  CASE c = "A" -> "a"
    [] c = "B" -> "b"
    [] OTHER -> c

toUpperCase(s) == [i \in DOMAIN s |-> UpperChar(s[i])]

toLowerCase(s) == [i \in DOMAIN s |-> LowerChar(s[i])]

RECURSIVE trimStart(_)
trimStart(s) ==
  IF s # <<>> /\ Head(s) = Space THEN trimStart(Tail(s)) ELSE s

RECURSIVE trimEnd(_)
trimEnd(s) ==
  IF s # <<>> /\ s[Len(s)] = Space THEN trimEnd(SubSeq(s, 1, Len(s) - 1)) ELSE s

\* String.prototype.trim
trim(s) == trimEnd(trimStart(s))

\* The value of a missing or undefined string argument.
Undefined == <<"undefined">>

\* JavaScript truthiness of a string argument: undefined and "" are falsy.
Truthy(s) == s # Undefined /\ s # <<>>

\* All strings of length n over the symbols of the sequence cs.
RECURSIVE StringsOver(_, _)
StringsOver(cs, n) ==
  IF n = 0 THEN {<<>>}
  ELSE {<<cs[i]>> \o t : i \in DOMAIN cs, t \in StringsOver(cs, n - 1)}

\* The values genRoomCode can return.
genRoomCode == StringsOver(chars, CodeLen)

\* ----------------------------------------------------------------- inputs
Users == {"u1", "u2"}

\* Request bodies' roomName: missing, empty, blank and a padded name.
RoomNames == {Undefined, <<>>, <<Space>>, <<Space, "n">>}

\* The spellings of a room code that differ from it in letter case and in
\* surrounding whitespace only.
Variants(c) ==
  {c, toLowerCase(c), <<Space>> \o toLowerCase(c) \o <<Space, Space>>}

\* Request bodies' roomCode for verify-room.
VerifyCodes ==
  {Undefined, <<>>, <<Space>>} \cup UNION {Variants(c) : c \in genRoomCode}

Reqs == 1..NumReqs

VARIABLES
  rooms,        \* the Room collection of the store, in insertion order
  req,          \* the HTTP requests being handled: their locals and position
  response,     \* the HTTP response sent last
  everOverlap   \* history: some request started while another was in flight

httpVars == <<rooms, req, response, everOverlap>>

\* ------------------------------------------------------------------ store
\* new Room({code, room_name, creator, members: [userId]})
NewRoom(code, name, userId) ==
  [code |-> code, room_name |-> name, creator |-> userId,
   members |-> <<userId>>, canvasData |-> <<>>]

\* Room.findOne({code}): position of the first matching document, 0 for null.
RoomFindOne(store, code) ==
  IF \E i \in DOMAIN store : store[i].code = code
  THEN CHOOSE i \in DOMAIN store :
         /\ store[i].code = code
         /\ \A j \in DOMAIN store : store[j].code = code => i <= j
  ELSE 0

\* No unique index: every insert is accepted.
RoomCodeAlwaysFree(store, code) == TRUE

\* The unique index on Room.code: may a document with this code be inserted?
RoomCodeFree(store, code) == \A i \in DOMAIN store : store[i].code # code

\* room.save() of a new document.
RoomInsert(store, doc) == Append(store, doc)

\* room.save() after room.members.push(userId): the array push is sent to the
\* store as an atomic push on the stored document.
RoomPushMember(store, i, userId) ==
  [store EXCEPT ![i].members = Append(@, userId)]

\* A comparison that never matches (an id object against a string).
includesNever(seq, x) == FALSE

\* Array.prototype.includes
includes(seq, x) == \E i \in DOMAIN seq : seq[i] = x

\* ------------------------------------------------------------ HTTP routes
IdleReq ==
  [kind |-> "none", pc |-> "idle", user |-> "u1", raw |-> <<>>, code |-> <<>>,
   attempts |-> 0, hits |-> 0, existingRoom |-> FALSE, doc |-> 0,
   members |-> <<>>]

NoResponse ==
  [status |-> 0, error |-> "none", roomCode |-> <<>>, memberCount |-> 0,
   logged |-> "none"]

Free(r) == req[r].pc = "idle"

InFlight(r) == ~Free(r)

Overlap(r) == everOverlap \/ \E q \in Reqs \ {r} : InFlight(q)

\* res.status(status).json({error}) ends the request.
Fail(r, status, error) ==
  /\ req' = [req EXCEPT ![r] = IdleReq]
  /\ response' = [NoResponse EXCEPT !.status = status, !.error = error]

\* res.status(201).json({roomCode}) and res.json({room: {code, memberCount}}),
\* with the line the handler logged about the membership.
Succeed(r, status, roomCode, memberCount, logged) ==
  /\ req' = [req EXCEPT ![r] = IdleReq]
  /\ response' = [status |-> status, error |-> "none", roomCode |-> roomCode,
                  memberCount |-> memberCount, logged |-> logged]

\* POST /api/create-room up to the first await: validation, the first
\* genRoomCode() and the first Room.findOne being issued.
CreateRoomStart(r, userId, roomName) ==
  /\ Free(r)
  /\ everOverlap' = Overlap(r)
  /\ UNCHANGED rooms
  /\ IF ~Truthy(roomName) \/ ~Truthy(trim(roomName))
     THEN Fail(r, 400, "Room name is required")
     ELSE /\ \E code \in genRoomCode :
               req' = [req EXCEPT ![r] =
                         [IdleReq EXCEPT !.kind = "create", !.pc = "lookup",
                                         !.user = userId, !.raw = roomName,
                                         !.code = code]]
          /\ UNCHANGED response

\* The filter in another letter case than the stored codes.
CreateQueryLower(code) == toLowerCase(code)

\* The filter of the loop's Room.findOne: {code: code.toUpperCase()}.
CreateQuery(code) == toUpperCase(code)

\* The loop bound off by one.
LoopAgainOnceMore(existingRoom, attempts) ==
  existingRoom /\ attempts < MaxAttempts + 1

\* The do-while condition of the code-generation loop.
LoopAgain(existingRoom, attempts) == existingRoom /\ attempts < MaxAttempts

\* Room.findOne resolves inside the code-generation loop; the loop either
\* generates the next code, gives up, or goes on to room.save().
CreateRoomLookup(r) ==
  /\ req[r].kind = "create" /\ req[r].pc = "lookup"
  /\ UNCHANGED <<rooms, everOverlap>>
  /\ LET existingRoom == RoomFindOne(rooms, CreateQuery(req[r].code)) # 0
         attempts == req[r].attempts + 1
         rec == [req[r] EXCEPT !.attempts = attempts,
                               !.existingRoom = existingRoom,
                               !.hits = @ + (IF existingRoom THEN 1 ELSE 0)]
     IN IF LoopAgain(existingRoom, attempts)
        THEN /\ \E code \in genRoomCode :
                  req' = [req EXCEPT ![r] = [rec EXCEPT !.code = code]]
             /\ UNCHANGED response
        ELSE IF existingRoom
        THEN Fail(r, 500, "Failed to generate unique room code")
        ELSE /\ req' = [req EXCEPT ![r] =
                          [IdleReq EXCEPT !.kind = "create", !.pc = "save",
                                          !.user = rec.user, !.raw = rec.raw,
                                          !.code = toUpperCase(rec.code)]]
             /\ UNCHANGED response

\* room.save() resolves or is rejected by the unique index.
CreateRoomSave(r) ==
  /\ req[r].kind = "create" /\ req[r].pc = "save"
  /\ UNCHANGED everOverlap
  /\ IF RoomCodeFree(rooms, req[r].code)
     THEN /\ rooms' = RoomInsert(rooms, NewRoom(req[r].code, trim(req[r].raw),
                                                 req[r].user))
          /\ Succeed(r, 201, req[r].code, 0, "Room created successfully")
     ELSE /\ UNCHANGED rooms
          /\ Fail(r, 500, "Room creation failed")

\* The code upper-cased but not trimmed.
cleanCodeNoTrim(roomCode) == toUpperCase(roomCode)

\* const cleanCode = roomCode.trim().toUpperCase()
cleanCode(roomCode) == toUpperCase(trim(roomCode))

\* POST /api/verify-room up to the first await.
VerifyRoomStart(r, userId, roomCode) ==
  /\ Free(r)
  /\ everOverlap' = Overlap(r)
  /\ UNCHANGED rooms
  /\ IF ~Truthy(roomCode) \/ ~Truthy(trim(roomCode))
     THEN Fail(r, 400, "Room code is required")
     ELSE /\ req' = [req EXCEPT ![r] =
                       [IdleReq EXCEPT !.kind = "verify", !.pc = "lookup",
                                       !.user = userId, !.raw = roomCode,
                                       !.code = cleanCode(roomCode)]]
          /\ UNCHANGED response

\* Room.findOne({code: cleanCode}) resolves: not found goes on to Room.find,
\* a new member is pushed and saved, a known member is answered at once.
VerifyRoomLookup(r) ==
  /\ req[r].kind = "verify" /\ req[r].pc = "lookup"
  /\ UNCHANGED <<rooms, everOverlap>>
  /\ LET i == RoomFindOne(rooms, req[r].code)
     IN IF i = 0
        THEN /\ req' = [req EXCEPT ![r] = [IdleReq EXCEPT !.kind = "verify",
                                                           !.pc = "list"]]
             /\ UNCHANGED response
        ELSE IF ~includes(rooms[i].members, req[r].user)
        THEN /\ req' = [req EXCEPT ![r] =
                          [IdleReq EXCEPT
                             !.kind = "verify", !.pc = "save",
                             !.user = req[r].user, !.raw = req[r].raw, !.doc = i,
                             !.members = Append(rooms[i].members, req[r].user)]]
             /\ UNCHANGED response
        ELSE Succeed(r, 200, rooms[i].code, Len(rooms[i].members),
                     "User already in room members")

\* Room.find({}) resolves and the 404 is sent.
VerifyRoomList(r) ==
  /\ req[r].kind = "verify" /\ req[r].pc = "list"
  /\ UNCHANGED <<rooms, everOverlap>>
  /\ Fail(r, 404, "Room not found")

\* room.save() of the pushed member resolves.
VerifyRoomSave(r) ==
  /\ req[r].kind = "verify" /\ req[r].pc = "save"
  /\ UNCHANGED everOverlap
  /\ rooms' = RoomPushMember(rooms, req[r].doc, req[r].user)
  /\ Succeed(r, 200, rooms[req[r].doc].code, Len(req[r].members),
             "User added to room members")

\* Any awaited store call of a route rejects: the catch block answers 500.
RequestStoreError(r) ==
  /\ InFlight(r)
  /\ UNCHANGED <<rooms, everOverlap>>
  /\ Fail(r, 500, IF req[r].kind = "create" THEN "Room creation failed"
                                             ELSE "Room verification failed")

\* ---------------------------------------------------------- realtime relay
Sockets == 1..NumSockets

\* A generated code that has a room in the store of the relay, and one that
\* has none.
StoredCode == [i \in 1..CodeLen |-> chars[1]]

OtherCode == [i \in 1..CodeLen |-> chars[2]]

\* The roomCode of socket messages: two spellings of each of the two codes.
RelayCodes == UNION {{c, toLowerCase(c)} : c \in {StoredCode, OtherCode}}

\* The stored code as a client may type it: lower case between spaces.
PaddedCode == <<Space>> \o toLowerCase(StoredCode) \o <<Space>>

\* Codes that hold nothing: the empty string and a single space.
BlankCodes == {<<>>, <<Space>>}

\* The names under which the adapter can hold a room.
RoomKeys == {toUpperCase(c) : c \in RelayCodes \cup {PaddedCode} \cup BlankCodes}

\* imageData of canvas-data messages.
Images == {<<"X">>, <<"Y">>}

\* Two drawing-data strokes that differ in every field.
Strokes ==
  {[prevX |-> 0, prevY |-> 0, currentX |-> 10, currentY |-> 10,
    color |-> "#000", size |-> 2, tool |-> "pen"],
   [prevX |-> 3, prevY |-> 4, currentX |-> 5, currentY |-> 6,
    color |-> "#fff", size |-> 9, tool |-> "eraser"]}

VARIABLES
  sock,      \* each connection: "new", "open" or "closed"
  adapter,   \* io.sockets.adapter.rooms: room name -> set of connections
  pending,   \* the socket handlers suspended on an awaited store call; a
             \* join-room remembers the message it was sent after (history)
  lastSync,  \* history: per room name, the last canvas-data / clear-canvas handled
  writeFailed,  \* history: the room names a store write has failed for
  out        \* the handler that ran last, the message it got and what it
             \* emitted to whom

relayVars == <<sock, adapter, pending, lastSync, writeFailed, out>>

vars ==
  <<rooms, req, response, everOverlap, sock, adapter, pending, lastSync,
    writeFailed, out>>

NoSync == <<"none">>
ClearSync == <<"clear">>
CanvasSync(imageData) == <<"canvas", imageData>>

NoPayload == <<>>

Nobody == [t \in Sockets |-> 0]

\* A client message: its roomCode and the rest of its payload.
Msg(roomCode, data) == [roomCode |-> roomCode, data |-> data]

NoMsg == Msg(<<>>, NoPayload)

NoOut ==
  [handler |-> "none", sock |-> 0, msg |-> NoMsg, room |-> <<>>,
   event |-> "none", payload |-> NoPayload, to |-> Nobody]

\* What a handler did: the message it got, the event it emitted and how many
\* packets each connection got.
Out(handler, s, msg, room, event, payload, to) ==
  [handler |-> handler, sock |-> s, msg |-> msg, room |-> room,
   event |-> event, payload |-> payload, to |-> to]

\* io.to(room).emit(...): the sender is not excepted.
BroadcastWithSender(room, s) ==
  [t \in Sockets |-> IF t \in adapter[room] THEN 1 ELSE 0]

\* socket.broadcast.emit(...): every other open connection, whatever its room.
BroadcastEverywhere(room, s) ==
  [t \in Sockets |-> IF sock[t] = "open" /\ t # s THEN 1 ELSE 0]

\* socket.to(room).emit(...): the adapter sends one packet to every connection
\* in the room except the sender.
BroadcastTo(room, s) ==
  [t \in Sockets |-> IF t \in adapter[room] /\ t # s THEN 1 ELSE 0]

\* socket.emit(...): one packet to the connection itself, dropped when the
\* connection is no longer open.
EmitTo(s) ==
  [t \in Sockets |-> IF t = s /\ sock[s] = "open" THEN 1 ELSE 0]

\* socket.join(room)
AdapterJoin(room, s) == [adapter EXCEPT ![room] = @ \cup {s}]

\* A closed connection stays in its rooms.
AdapterLeaveNone(s) == adapter

\* The adapter drops a closed connection from every room.
AdapterLeaveAll(s) == [k \in RoomKeys |-> adapter[k] \ {s}]

\* A suspended handler may be added (bounds of the model).
CanSuspend(p) == p \notin pending /\ Cardinality(pending) < MaxPending

\* io.on('connection')
Connect(s) ==
  /\ sock[s] = "new"
  /\ sock' = [sock EXCEPT ![s] = "open"]
  /\ out' = Out("connection", s, NoMsg, <<>>, "none", NoPayload, Nobody)
  /\ UNCHANGED <<adapter, pending, lastSync, writeFailed>>

\* A disconnect that aborts the store writes still in flight.
DisconnectCancels(s) ==
  /\ sock[s] = "open"
  /\ sock' = [sock EXCEPT ![s] = "closed"]
  /\ adapter' = AdapterLeaveAll(s)
  /\ pending' = {p \in pending : p.stage # "write"}
  /\ out' = Out("disconnect", s, NoMsg, <<>>, "none", NoPayload, Nobody)
  /\ UNCHANGED <<lastSync, writeFailed>>

\* socket.on('disconnect'): only logs; the connection has left its rooms.
Disconnect(s) ==
  /\ sock[s] = "open"
  /\ sock' = [sock EXCEPT ![s] = "closed"]
  /\ adapter' = AdapterLeaveAll(s)
  /\ out' = Out("disconnect", s, NoMsg, <<>>, "none", NoPayload, Nobody)
  /\ UNCHANGED <<pending, lastSync, writeFailed>>

\* A handler whose roomCode is missing: toUpperCase throws and the catch
\* block logs.
HandlerThrows(s, handler) ==
  /\ sock[s] = "open"
  /\ out' = Out(handler, s, Msg(Undefined, NoPayload), <<>>, "none", NoPayload,
             Nobody)
  /\ UNCHANGED <<sock, adapter, pending, lastSync, writeFailed>>

\* socket.on('join-room') up to the await of Room.findOne.
JoinRoom(s, roomCode) ==
  /\ sock[s] = "open"
  /\ LET upperRoomCode == toUpperCase(roomCode)
         p == [kind |-> "join-room", stage |-> "read", sock |-> s,
               room |-> upperRoomCode, imageData |-> <<>>, found |-> FALSE,
               after |-> lastSync[upperRoomCode], newer |-> FALSE]
     IN /\ CanSuspend(p)
        /\ adapter' = AdapterJoin(upperRoomCode, s)
        /\ pending' = pending \cup {p}
        /\ out' = Out("join-room", s, Msg(roomCode, NoPayload), upperRoomCode,
                      "none", NoPayload, Nobody)
  /\ UNCHANGED <<sock, lastSync, writeFailed>>

\* The store answers the Room.findOne of a join-room.
JoinRead(p) ==
  /\ p \in pending /\ p.kind = "join-room" /\ p.stage = "read"
  /\ LET i == RoomFindOne(rooms, p.room)
         q == [p EXCEPT !.stage = "reply", !.found = (i # 0),
                        !.imageData = IF i # 0 THEN rooms[i].canvasData ELSE <<>>]
     IN pending' = (pending \ {p}) \cup {q}
  /\ out' = NoOut
  /\ UNCHANGED <<sock, adapter, lastSync, writeFailed>>

\* The rest of join-room with io.to(room).emit: the stored canvas goes to the
\* whole room.
JoinReplyToRoom(p) ==
  /\ p \in pending /\ p.kind = "join-room" /\ p.stage = "reply"
  /\ pending' = pending \ {p}
  /\ IF p.found /\ p.imageData # <<>>
     THEN out' = Out("join-room/sync", p.sock, NoMsg, p.room, "canvas-data",
                     [imageData |-> p.imageData], BroadcastWithSender(p.room, 0))
     ELSE out' = Out("join-room/sync", p.sock, NoMsg, p.room, "none", NoPayload,
                     Nobody)
  /\ UNCHANGED <<sock, adapter, lastSync, writeFailed>>

\* The rest of join-room: the stored canvas goes to the joining connection.
JoinReply(p) ==
  /\ p \in pending /\ p.kind = "join-room" /\ p.stage = "reply"
  /\ pending' = pending \ {p}
  /\ IF p.found /\ p.imageData # <<>>
     THEN out' = Out("join-room/sync", p.sock, NoMsg, p.room, "canvas-data",
                     [imageData |-> p.imageData], EmitTo(p.sock))
     ELSE out' = Out("join-room/sync", p.sock, NoMsg, p.room, "none", NoPayload,
                     Nobody)
  /\ UNCHANGED <<sock, adapter, lastSync, writeFailed>>

\* socket.on('drawing-data')
DrawingData(s, roomCode, data) ==
  /\ sock[s] = "open"
  /\ LET upperRoomCode == toUpperCase(roomCode)
     IN out' = Out("drawing-data", s, Msg(roomCode, data), upperRoomCode,
                   "drawing-data",
                   [prevX |-> data.prevX, prevY |-> data.prevY,
                    currentX |-> data.currentX, currentY |-> data.currentY,
                    color |-> data.color, size |-> data.size, tool |-> data.tool],
                   BroadcastTo(upperRoomCode, s))
  /\ UNCHANGED <<sock, adapter, pending, lastSync, writeFailed>>

\* A later canvas-data or clear-canvas for the room of a suspended join-room:
\* the join no longer directly follows the message it was sent after.
Intervene(room) ==
  {IF p.kind = "join-room" /\ p.room = room
   THEN [p EXCEPT !.after = NoSync] ELSE p : p \in pending}

\* History: the suspended join-rooms of a room whose connection has just been
\* sent the newest canvas of the room by a peer; a message that did not reach
\* the connection ends that.
Overtaken(joins, room, to) ==
  {IF p.kind = "join-room" /\ p.room = room
   THEN [p EXCEPT !.newer = (to[p.sock] = 1)] ELSE p : p \in joins}

\* socket.on('canvas-data') up to the await of Room.findOneAndUpdate.
CanvasData(s, roomCode, imageData) ==
  /\ sock[s] = "open"
  /\ LET upperRoomCode == toUpperCase(roomCode)
         p == [kind |-> "canvas-data", stage |-> "write", sock |-> 0,
               room |-> upperRoomCode, imageData |-> imageData, found |-> FALSE,
               after |-> NoSync, newer |-> FALSE]
     IN /\ CanSuspend(p)
        /\ out' = Out("canvas-data", s, Msg(roomCode, imageData), upperRoomCode,
                      "canvas-data", [imageData |-> imageData],
                      BroadcastTo(upperRoomCode, s))
        /\ pending' = Overtaken(Intervene(upperRoomCode), upperRoomCode,
                                BroadcastTo(upperRoomCode, s)) \cup {p}
        /\ lastSync' = [lastSync EXCEPT ![upperRoomCode] = CanvasSync(imageData)]
  /\ UNCHANGED <<sock, adapter, writeFailed>>

\* socket.on('clear-canvas') up to the await of Room.findOneAndUpdate.
ClearCanvas(s, roomCode) ==
  /\ sock[s] = "open"
  /\ LET upperRoomCode == toUpperCase(roomCode)
         p == [kind |-> "clear-canvas", stage |-> "write", sock |-> 0,
               room |-> upperRoomCode, imageData |-> <<>>, found |-> FALSE,
               after |-> NoSync, newer |-> FALSE]
     IN /\ CanSuspend(p)
        /\ out' = Out("clear-canvas", s, Msg(roomCode, NoPayload), upperRoomCode,
                      "clear-canvas", NoPayload, BroadcastTo(upperRoomCode, s))
        /\ pending' = Overtaken(Intervene(upperRoomCode), upperRoomCode,
                                Nobody) \cup {p}
        /\ lastSync' = [lastSync EXCEPT ![upperRoomCode] = ClearSync]
  /\ UNCHANGED <<sock, adapter, writeFailed>>

\* Room.findOneAndUpdate({code}, {canvasData}, {upsert: true}): a room that is
\* not there is created.
RoomUpsertCanvas(store, code, imageData) ==
  LET i == RoomFindOne(store, code)
  IN IF i = 0
     THEN Append(store, [NewRoom(code, <<>>, "u1") EXCEPT !.canvasData = imageData])
     ELSE [store EXCEPT ![i].canvasData = imageData]

\* Room.findOneAndUpdate({code}, {canvasData}) without upsert.
RoomUpdateCanvas(store, code, imageData) ==
  LET i == RoomFindOne(store, code)
  IN IF i = 0 THEN store ELSE [store EXCEPT ![i].canvasData = imageData]

\* The store applies the update of a canvas-data or clear-canvas; the rest of
\* the handler only logs.
WriteApply(p) ==
  /\ p \in pending /\ p.stage = "write"
  /\ rooms' = RoomUpdateCanvas(rooms, p.room, p.imageData)
  /\ pending' = pending \ {p}
  /\ out' = NoOut
  /\ UNCHANGED <<sock, adapter, lastSync, writeFailed>>

\* The catch block of a handler tells the room what went wrong.
HandlerStoreErrorTold(p) ==
  /\ p \in pending /\ p.stage \in {"read", "write"}
  /\ pending' = pending \ {p}
  /\ out' = Out(p.kind \o "/catch", p.sock, NoMsg, p.room, "error", NoPayload,
                [t \in Sockets |-> IF t \in adapter[p.room] THEN 1 ELSE 0])
  /\ writeFailed' = IF p.stage = "write" THEN writeFailed \cup {p.room}
                                           ELSE writeFailed
  /\ UNCHANGED <<sock, adapter, lastSync>>

\* The catch block of a handler takes the connection out of the room again.
HandlerStoreErrorLeaves(p) ==
  /\ p \in pending /\ p.stage \in {"read", "write"}
  /\ pending' = pending \ {p}
  /\ out' = Out(p.kind \o "/catch", p.sock, NoMsg, p.room, "none", NoPayload,
                Nobody)
  /\ adapter' = [adapter EXCEPT ![p.room] = @ \ {p.sock}]
  /\ writeFailed' = IF p.stage = "write" THEN writeFailed \cup {p.room}
                                           ELSE writeFailed
  /\ UNCHANGED <<sock, lastSync>>

\* An awaited store call of a socket handler rejects: the catch block logs.
HandlerStoreError(p) ==
  /\ p \in pending /\ p.stage \in {"read", "write"}
  /\ pending' = pending \ {p}
  /\ out' = Out(p.kind \o "/catch", p.sock, NoMsg, p.room, "none", NoPayload,
                Nobody)
  /\ writeFailed' = IF p.stage = "write" THEN writeFailed \cup {p.room}
                                           ELSE writeFailed
  /\ UNCHANGED <<sock, adapter, lastSync>>

\* Connections come and go, join rooms and get the stored canvas.
JoinSteps(codes) ==
  \/ \E s \in Sockets : Connect(s) /\ UNCHANGED httpVars
  \/ \E s \in Sockets : Disconnect(s) /\ UNCHANGED httpVars
  \/ \E s \in Sockets, c \in codes : JoinRoom(s, c) /\ UNCHANGED httpVars
  \/ \E p \in pending : JoinRead(p) /\ UNCHANGED httpVars
  \/ \E p \in pending : JoinReply(p) /\ UNCHANGED httpVars
  \/ \E p \in pending : HandlerStoreError(p) /\ UNCHANGED httpVars
  \/ \E s \in Sockets : HandlerThrows(s, "join-room") /\ UNCHANGED httpVars

\* Strokes are relayed.
DrawSteps(codes) ==
  \/ \E s \in Sockets, c \in codes, d \in Strokes :
       DrawingData(s, c, d) /\ UNCHANGED httpVars
  \/ \E s \in Sockets : HandlerThrows(s, "drawing-data") /\ UNCHANGED httpVars

\* Snapshots are relayed and stored.
SyncSteps(codes) ==
  \/ \E s \in Sockets, c \in codes, i \in Images :
       CanvasData(s, c, i) /\ UNCHANGED httpVars
  \/ \E s \in Sockets, c \in codes : ClearCanvas(s, c) /\ UNCHANGED httpVars
  \/ \E p \in pending :
       WriteApply(p) /\ UNCHANGED <<req, response, everOverlap>>
  \/ \E s \in Sockets, h \in {"canvas-data", "clear-canvas"} :
       HandlerThrows(s, h) /\ UNCHANGED httpVars

\* The spellings of the code that has a room in the store.
StoredCodes == {StoredCode, toLowerCase(StoredCode)}

\* The spellings of the stored code, the padded one among them.
SpellingCodes == StoredCodes \cup {PaddedCode}

NextSpelling ==
  \/ JoinSteps(SpellingCodes)
  \/ DrawSteps(SpellingCodes)
  \/ SyncSteps({PaddedCode})

NextRoom ==
  \/ JoinSteps(StoredCodes)
  \/ DrawSteps({StoredCode})
  \/ SyncSteps(StoredCodes)

\* The code of a stored room and a code without a room.
StoreCodes == {StoredCode, PaddedCode}

\* canvas-data and clear-canvas and their store writes.
NextStore ==
  \/ \E s \in Sockets : Connect(s) /\ UNCHANGED httpVars
  \/ \E p \in pending : HandlerStoreError(p) /\ UNCHANGED httpVars
  \/ SyncSteps(StoreCodes)

\* Joining any room while one connection keeps the stored room's canvas
\* changing.
NextJoin == JoinSteps(RelayCodes) \/ SyncSteps({StoredCode})

\* Joining and drawing under the stored code and under codes that hold
\* nothing.
NextBlank ==
  \/ JoinSteps(BlankCodes \cup {StoredCode})
  \/ DrawSteps(BlankCodes \cup {StoredCode})

\* A store that answers every write: connections come, send canvas-data for
\* the stored room and go.
NextLive ==
  \/ \E s \in Sockets : Connect(s) /\ UNCHANGED httpVars
  \/ \E s \in Sockets : Disconnect(s) /\ UNCHANGED httpVars
  \/ \E s \in Sockets, c \in StoredCodes, i \in Images :
       CanvasData(s, c, i) /\ UNCHANGED httpVars
  \/ \E p \in pending :
       WriteApply(p) /\ UNCHANGED <<req, response, everOverlap>>

\* The write of imageData that is in flight for the stored room completes.
WriteDone(imageData) ==
  \E p \in pending :
    /\ p.kind = "canvas-data" /\ p.imageData = imageData
    /\ WriteApply(p) /\ UNCHANGED <<req, response, everOverlap>>

\* The event loop runs the continuation of every store call that has been
\* answered, and the store answers every call.
FairWrites == \A i \in Images : WF_vars(WriteDone(i))

NextFanout == JoinSteps(RelayCodes) \/ DrawSteps(RelayCodes)

NextSync == JoinSteps(StoredCodes) \/ SyncSteps(StoredCodes)

NextRelay ==
  \/ JoinSteps(RelayCodes)
  \/ DrawSteps(RelayCodes)
  \/ SyncSteps(RelayCodes)

\* The stores earlier runs of create-room can have left behind.
SeedName == <<"n">>

SeedStores ==
  {<<>>}
  \cup {<<NewRoom(c, SeedName, u)>> : c \in genRoomCode, u \in Users}
  \cup {<<NewRoom(p[1], SeedName, "u1"), NewRoom(p[2], SeedName, "u2")>> :
          p \in {q \in genRoomCode \X genRoomCode : q[1] # q[2]}}

\* A store in which one code has a room and the others have none.
RelayStore == <<NewRoom(StoredCode, SeedName, "u1")>>

\* A store with two rooms.
TwoRoomStore ==
  <<NewRoom(StoredCode, SeedName, "u1"), NewRoom(OtherCode, SeedName, "u2")>>

NextCreate ==
  \/ \E r \in Reqs, u \in Users, n \in RoomNames :
       CreateRoomStart(r, u, n) /\ UNCHANGED relayVars
  \/ \E r \in Reqs : CreateRoomLookup(r) /\ UNCHANGED relayVars
  \/ \E r \in Reqs : CreateRoomSave(r) /\ UNCHANGED relayVars
  \/ \E r \in Reqs : RequestStoreError(r) /\ UNCHANGED relayVars

NextVerify ==
  \/ \E r \in Reqs, u \in Users, c \in VerifyCodes :
       VerifyRoomStart(r, u, c) /\ UNCHANGED relayVars
  \/ \E r \in Reqs : VerifyRoomLookup(r) /\ UNCHANGED relayVars
  \/ \E r \in Reqs : VerifyRoomList(r) /\ UNCHANGED relayVars
  \/ \E r \in Reqs : VerifyRoomSave(r) /\ UNCHANGED relayVars
  \/ \E r \in Reqs : RequestStoreError(r) /\ UNCHANGED relayVars

Next == NextCreate \/ NextVerify \/ NextRelay

InitRequests ==
  /\ req = [r \in Reqs |-> IdleReq]
  /\ response = NoResponse
  /\ everOverlap = FALSE

InitRelay ==
  /\ sock = [s \in Sockets |-> "new"]
  /\ adapter = [k \in RoomKeys |-> {}]
  /\ pending = {}
  /\ lastSync = [k \in RoomKeys |-> NoSync]
  /\ writeFailed = {}
  /\ out = NoOut

\* The server has started: no request, no connection, and the store as
\* earlier runs left it.
Init == rooms \in SeedStores /\ InitRequests /\ InitRelay

InitEmpty == rooms = <<>> /\ InitRequests /\ InitRelay

InitRelayStore == rooms = RelayStore /\ InitRequests /\ InitRelay

InitTwoRooms == rooms = TwoRoomStore /\ InitRequests /\ InitRelay

Spec == Init /\ [][Next]_vars

\* create-room requests against a store that starts empty.
SpecCreate == InitEmpty /\ [][NextCreate]_vars

\* verify-room requests against the stores create-room leaves behind.
SpecVerify == Init /\ [][NextVerify]_vars

\* The socket handlers against a store that holds one room.
SpecRelay == InitRelayStore /\ [][NextRelay]_vars

\* Joining and drawing, in rooms with and without a stored room.
SpecFanout == InitRelayStore /\ [][NextFanout]_vars

\* Joining, canvas-data and clear-canvas for the room the store holds.
SpecSync == InitRelayStore /\ [][NextSync]_vars

\* Every socket handler, for the spellings of the code the store holds.
SpecSpelling == InitRelayStore /\ [][NextSpelling]_vars

\* Every socket handler, for the one room the store holds.
SpecRoom == InitRelayStore /\ [][NextRoom]_vars

\* canvas-data and clear-canvas against a store that holds two rooms.
SpecStore == InitTwoRooms /\ [][NextStore]_vars

\* join-room for rooms with and without a stored room and canvas.
SpecJoin == InitRelayStore /\ [][NextJoin]_vars

\* Joining and drawing with codes that are empty or blank.
SpecBlank == InitRelayStore /\ [][NextBlank]_vars

\* canvas-data for the stored room, with a store that never fails and a fair
\* event loop.
SpecLive == InitRelayStore /\ [][NextLive]_vars /\ FairWrites

\* ------------------------------------------------------------ properties
\* The room name a spelling of a code stands for, without toUpperCase.
KeyOf(c) == CHOOSE k \in RoomKeys : c \in {k, toLowerCase(k)}

\* The connections registered in room name k.
Registered(k) == {t \in Sockets : t \in adapter[k]}

\* C1: a connection that sends drawing-data is never among the recipients of
\* the drawing-data message the server sends for it, whoever else is in the
\* room.
C1_NoEcho ==
  (out.handler = "drawing-data" /\ out.event = "drawing-data")
    => out.to[out.sock] = 0

\* A joined connection drew and its only packet went to the peer in the room.
C1_Witness ==
  /\ out.handler = "drawing-data" /\ out.event = "drawing-data"
  /\ out.sock \in Registered(out.room)
  /\ \E t \in Registered(out.room) : t # out.sock /\ out.to[t] = 1

\* C2: a drawing-data for code R gives every other connection registered in
\* the upper-cased room R exactly one drawing-data packet with the sender's
\* seven values, and no packet to anybody else.
C2_FanOut ==
  (out.handler = "drawing-data" /\ out.msg.roomCode # Undefined) =>
    /\ out.event = "drawing-data"
    /\ out.payload = out.msg.data
    /\ \A t \in Sockets :
         out.to[t] = IF t # out.sock /\ t \in Registered(KeyOf(out.msg.roomCode))
                     THEN 1 ELSE 0

\* The eraser stroke, sent under the lower-case spelling of the code, reached
\* the peer in the room while the other room held a connection as well.
C2_Witness ==
  /\ out.handler = "drawing-data"
  /\ out.msg.roomCode \notin RoomKeys
  /\ \E t \in Sockets : out.to[t] = 1 /\ out.payload.tool = "eraser"
  /\ \E k \in RoomKeys : k # out.room /\ adapter[k] # {}

\* C3: a join-room for R sent after a canvas-data with imageData X for R, with
\* no later canvas-data or clear-canvas for R, is answered with a canvas-data
\* carrying X, however the store write and the store read interleave.
C3_LateJoinSync ==
  [][\A p \in pending :
       ( /\ p.kind = "join-room" /\ p.stage = "reply" /\ p \notin pending'
         /\ out'.handler = "join-room/sync"
         /\ sock[p.sock] = "open"
         /\ p.after[1] = "canvas" )
       => /\ out'.event = "canvas-data"
          /\ out'.payload = [imageData |-> p.after[2]]
          /\ out'.to[p.sock] = 1]_vars

\* C4: a join-room for R sent after a clear-canvas for R is answered with no
\* canvas-data or with an empty one, however the writes and the read
\* interleave.
C4_ClearThenJoin ==
  [][\A p \in pending :
       ( /\ p.kind = "join-room" /\ p.stage = "reply" /\ p \notin pending'
         /\ out'.handler = "join-room/sync"
         /\ p.after = ClearSync )
       => \/ out'.event = "none"
          \/ out'.to[p.sock] = 0
          \/ out'.event = "canvas-data" /\ out'.payload.imageData = <<>>]_vars

\* C5: a drawing-data from a connection that is in no room reaches nobody.
C5_UnjoinedDrawsNothing ==
  ( /\ out.handler = "drawing-data" /\ out.msg.roomCode # Undefined
    /\ \A k \in RoomKeys : out.sock \notin adapter[k] )
    => \A t \in Sockets : out.to[t] = 0

\* C6: no two rooms of the store have the same code, however create-room
\* requests interleave at their store calls.
C6_CodesUnique ==
  \A i \in DOMAIN rooms, j \in DOMAIN rooms : i # j => rooms[i].code # rooms[j].code

\* A create-room is about to insert a code that a concurrent request has
\* inserted since the lookup.
C6_Witness ==
  \E r \in Reqs :
    /\ req[r].kind = "create" /\ req[r].pc = "save"
    /\ \E i \in DOMAIN rooms : rooms[i].code = req[r].code

\* C7: when requests run one at a time, the code a create-room goes on to
\* insert is the code of no stored room.
C7_SequentialFresh ==
  \A r \in Reqs :
    (req[r].kind = "create" /\ req[r].pc = "save" /\ ~everOverlap)
      => \A i \in DOMAIN rooms : rooms[i].code # req[r].code

\* A create-room that ran alone is about to insert into a store that already
\* holds a room.
C7_Witness ==
  \E r \in Reqs :
    /\ req[r].kind = "create" /\ req[r].pc = "save" /\ ~everOverlap
    /\ rooms # <<>>

\* The code-generation loop while it waits for a lookup: fewer than 10 lookups
\* are done and each of them found a room.
LoopBounded ==
  \A r \in Reqs :
    (req[r].kind = "create" /\ req[r].pc = "lookup")
      => req[r].attempts < 10 /\ req[r].hits = req[r].attempts

\* One lookup of the loop resolves: it gives up exactly at the tenth hit,
\* inserting nothing, and goes on with the code exactly when it was not found.
LoopStep ==
  \A r \in Reqs :
    ( /\ req[r].kind = "create" /\ req[r].pc = "lookup" /\ req'[r] # req[r]
      /\ ~(req'[r].pc = "idle" /\ response'.error = "Room creation failed") )
    => LET found == \E i \in DOMAIN rooms : rooms[i].code = req[r].code
       IN /\ req'[r].pc = "idle" <=> (found /\ req[r].attempts = 9)
          /\ req'[r].pc = "idle" =>
               /\ response'.status = 500
               /\ response'.error = "Failed to generate unique room code"
               /\ rooms' = rooms
          /\ req'[r].pc = "save" <=> ~found
          /\ req'[r].pc = "save" => req'[r].code = req[r].code
          /\ req'[r].pc = "lookup" => req'[r].attempts = req[r].attempts + 1

\* C8: the code-generation loop does at most 10 lookups; it fails with
\* 'failed to generate unique room code', inserting nothing, exactly when the
\* code of the tenth lookup exists, and otherwise goes on with the first code
\* that was not found.
C8_BoundedRetry == []LoopBounded /\ [][LoopStep]_vars

\* The loop gave up.
C8_Witness ==
  /\ response.status = 500
  /\ response.error = "Failed to generate unique room code"

\* C9: when requests run one at a time, a verify-room by a user who is already
\* a member of the room leaves the store as it is and reports the unchanged
\* member count.
C9_MemberJoinIdempotent ==
  [][\A r \in Reqs :
       ( /\ req[r].kind = "verify" /\ req[r].pc # "idle" /\ req'[r].pc = "idle"
         /\ response'.status = 200 /\ ~everOverlap )
       => \A i \in DOMAIN rooms :
            ( /\ rooms[i].code = response'.roomCode
              /\ \E k \in DOMAIN rooms[i].members : rooms[i].members[k] = req[r].user )
            => /\ rooms' = rooms
               /\ response'.memberCount = Len(rooms[i].members)]_vars

\* A repeated verify-room of the second member was answered with count 2.
C9_Witness ==
  /\ response.status = 200 /\ response.logged = "User already in room members"
  /\ response.memberCount = 2 /\ ~everOverlap
  /\ \E i \in DOMAIN rooms :
       /\ rooms[i].code = response.roomCode
       /\ Len(rooms[i].members) = 2
       /\ rooms[i].members[2] # rooms[i].creator

\* A roomCode that is missing or holds nothing but whitespace.
Blank(c) == c = Undefined \/ \A k \in DOMAIN c : c[k] = Space

\* A blank roomCode is answered 400 and the request is over.
BlankRejected ==
  \A r \in Reqs, u \in Users, c \in VerifyCodes :
    (VerifyRoomStart(r, u, c) /\ Blank(c))
      => response'.status = 400 /\ req'[r].pc = "idle" /\ rooms' = rooms

\* The lookup of a verify-room finds the room whose code the input spells.
SpellingFound ==
  \A r \in Reqs :
    ( /\ req[r].kind = "verify" /\ req[r].pc = "lookup" /\ req'[r] # req[r]
      /\ ~(req'[r].pc = "idle" /\ response'.status = 500) )
    => \A i \in DOMAIN rooms :
         req[r].raw \in Variants(rooms[i].code)
           => \/ req'[r].pc = "save" /\ req'[r].doc = i
              \/ /\ req'[r].pc = "idle" /\ response'.status = 200
                 /\ response'.roomCode = rooms[i].code

\* C10: verify-room finds the room of code C for every input that is C up to
\* letter case and surrounding whitespace, and answers a blank input with a
\* validation error without going to the store.
C10_LookupInsensitive == [][BlankRejected /\ SpellingFound]_vars

\* A lower-case, padded spelling found its room.
C10_Witness ==
  \E r \in Reqs :
    /\ req[r].kind = "verify" /\ req[r].pc = "save" /\ req[r].doc # 0
    /\ req[r].raw # rooms[req[r].doc].code
    /\ Head(req[r].raw) = Space

\* C11: join-room registers the connection under the trimmed, upper-cased code,
\* and a drawing-data, canvas-data or clear-canvas reaches every other
\* connection registered under a spelling of the same code.
C11_JoinNormalized ==
  /\ (out.handler = "join-room" /\ out.msg.roomCode # Undefined)
       => out.sock \in adapter[cleanCode(out.msg.roomCode)]
  /\ ( /\ out.handler \in {"drawing-data", "canvas-data", "clear-canvas"}
       /\ out.msg.roomCode # Undefined )
       => \A t \in Sockets \ {out.sock}, k \in RoomKeys :
            (t \in adapter[k] /\ cleanCode(k) = cleanCode(out.msg.roomCode))
              => out.to[t] = 1

\* The handlers that relay a snapshot and then store it.
SyncHandlers == {"canvas-data", "clear-canvas"}

\* The message of a canvas-data or clear-canvas went to every other connection
\* registered in the room, while its store write was still to come.
SyncRelayed ==
  (out.handler \in SyncHandlers /\ out.msg.roomCode # Undefined) =>
    /\ out.event = out.handler
    /\ \E p \in pending : p.kind = out.handler /\ p.stage = "write"
    /\ \A t \in Sockets :
         out.to[t] = IF t # out.sock /\ t \in adapter[out.room] THEN 1 ELSE 0

\* The end of a store write, failed or not, sends nothing and leaves the
\* registry alone; a failed one leaves the store alone as well.
SyncWriteSilent ==
  \A p \in pending :
    (p.stage = "write" /\ p \notin pending') =>
      /\ out'.event = "none" /\ out'.to = Nobody
      /\ adapter' = adapter /\ sock' = sock
      /\ out'.handler = p.kind \o "/catch" => rooms' = rooms

\* C12: a canvas-data or clear-canvas reaches every peer registered when the
\* handler runs, whether its store write succeeds, fails or never completes,
\* and a failing store write sends no message and changes no room set.
C12_RelayBeforeStore == []SyncRelayed /\ [][SyncWriteSilent]_vars

\* The store write of a canvas-data that had reached a peer failed.
C12_Witness ==
  /\ out.handler = "canvas-data/catch"
  /\ \E k \in RoomKeys :
       /\ Cardinality(adapter[k]) = 2
       /\ lastSync[k] # NoSync
       /\ \A i \in DOMAIN rooms : rooms[i].code = k => rooms[i].canvasData = <<>>

\* A closed connection is in no room and got no packet from the handler that
\* ran last.
ClosedGetsNothing ==
  \A s \in Sockets :
    sock[s] = "closed" =>
      /\ \A k \in RoomKeys : s \notin adapter[k]
      /\ out.to[s] = 0

\* A closed connection stays closed.
ClosedForever == \A s \in Sockets : sock[s] = "closed" => sock'[s] = "closed"

\* C13: from its disconnect on a connection is in no room set and receives
\* nothing: no drawing-data, canvas-data or clear-canvas handled later, and not
\* the stored canvas of its own join-room when it closed during the lookup.
C13_GoneAfterDisconnect == []ClosedGetsNothing /\ [][ClosedForever]_vars

\* The lookup of a join-room found a stored canvas for a connection that had
\* closed in the meantime.
C13_Witness ==
  /\ out.handler = "join-room/sync" /\ out.event = "canvas-data"
  /\ sock[out.sock] = "closed"
  /\ \E t \in Sockets : sock[t] = "open" /\ t \in adapter[out.room]

\* C14: no user is twice among the members of a room, however verify-room
\* requests interleave at their store calls.
C14_MembersDistinct ==
  \A i \in DOMAIN rooms :
    \A j, k \in DOMAIN rooms[i].members :
      j # k => rooms[i].members[j] # rooms[i].members[k]

\* The canvas the last canvas-data or clear-canvas handled for a room carried.
LastCanvas(k) == IF lastSync[k] = ClearSync THEN <<>> ELSE lastSync[k][2]

\* C15: when every store write issued for a room has completed and none has
\* failed, the stored canvasData of the room is the payload of the message
\* that was relayed last (empty after a clear-canvas), whatever order the
\* writes completed in.
C15_LastBroadcastWins ==
  \A k \in RoomKeys :
    ( /\ lastSync[k] # NoSync
      /\ k \notin writeFailed
      /\ \A p \in pending : ~(p.stage = "write" /\ p.room = k) )
    => \A i \in DOMAIN rooms :
         rooms[i].code = k => rooms[i].canvasData = LastCanvas(k)

\* The room names a connection is registered under.
RoomsOf(s) == {k \in RoomKeys : s \in adapter[k]}

\* C16: a connection is registered in at most one room: a join-room leaves it
\* in the room it names and in no other, and a message relayed to a room
\* reaches only connections whose one room it is.
C16_OneRoomAtATime ==
  /\ \A s \in Sockets : Cardinality(RoomsOf(s)) <= 1
  /\ (out.handler = "join-room" /\ out.msg.roomCode # Undefined)
       => RoomsOf(out.sock) = {out.room}
  /\ \A t \in Sockets : out.to[t] = 1 => RoomsOf(t) = {out.room}

\* The connections registered under a spelling of the room a code names.
NormRegistered(c) ==
  {t \in Sockets :
     \E k \in RoomKeys : t \in adapter[k] /\ cleanCode(k) = cleanCode(c)}

\* A canvas-data went to the other connections of the room its code names,
\* wherever the sender is registered, and to nobody else.
SyncByCode ==
  (out.handler = "canvas-data" /\ out.msg.roomCode # Undefined) =>
    /\ out.event = "canvas-data"
    /\ out.payload = [imageData |-> out.msg.data]
    /\ \A t \in Sockets :
         out.to[t] = IF t # out.sock /\ t \in NormRegistered(out.msg.roomCode)
                     THEN 1 ELSE 0

\* The store write of a canvas-data puts its imageData into the room its code
\* names and leaves every other room alone.
SyncWriteByCode ==
  \A p \in pending :
    ( /\ p.kind = "canvas-data" /\ p.stage = "write" /\ p \notin pending'
      /\ out'.handler # "canvas-data/catch" )
    => /\ DOMAIN rooms' = DOMAIN rooms
       /\ \A i \in DOMAIN rooms :
            rooms'[i] = IF rooms[i].code = cleanCode(p.room)
                        THEN [rooms[i] EXCEPT !.canvasData = p.imageData]
                        ELSE rooms[i]

\* C17: a canvas-data naming code R goes to every other connection registered
\* in the normalized room R and into the canvasData of room R, whatever room
\* the sender is in, and touches no other room's connections or canvasData.
C17_SyncByMessageCode == []SyncByCode /\ [][SyncWriteByCode]_vars

\* Everything of a room but its canvasData.
Frame(room) ==
  [code |-> room.code, room_name |-> room.room_name, creator |-> room.creator,
   members |-> room.members]

\* The end of the store write of a canvas-data or clear-canvas: no room comes
\* or goes, no room changes but the one of the code, and of that one only the
\* canvasData.
SyncWriteFrame ==
  \A p \in pending :
    (p.stage = "write" /\ p \notin pending') =>
      /\ DOMAIN rooms' = DOMAIN rooms
      /\ \A i \in DOMAIN rooms :
           /\ Frame(rooms'[i]) = Frame(rooms[i])
           /\ rooms[i].code # p.room => rooms'[i] = rooms[i]
      /\ (\A i \in DOMAIN rooms : rooms[i].code # p.room) => rooms' = rooms

\* Relaying itself writes nothing.
SyncRelayFrame == out'.handler \in SyncHandlers => rooms' = rooms

\* C18: a canvas-data or clear-canvas for a code without a stored room leaves
\* the store as it is, and for a stored room changes nothing but that room's
\* canvasData.
C18_SnapshotFrame == [][SyncWriteFrame /\ SyncRelayFrame]_vars

\* A canvas-data for a code without a room has been written to no effect,
\* and of the two rooms the one that got a canvas-data holds a canvas.
C18_Witness ==
  /\ pending = {} /\ writeFailed = {} /\ Len(rooms) = 2
  /\ \E k \in RoomKeys :
       /\ lastSync[k] # NoSync /\ lastSync[k] # ClearSync
       /\ \A i \in DOMAIN rooms : rooms[i].code # k
  /\ rooms[1].canvasData # <<>> /\ rooms[2].canvasData = <<>>

\* The first half of join-room sends nothing.
JoinSilent == out.handler = "join-room" => out.event = "none" /\ out.to = Nobody

\* The lookup of a join-room resolves: the handler holds the canvas the store
\* has for the room at that moment, and nothing is sent yet.
JoinLookup ==
  \A p \in pending :
    (p.kind = "join-room" /\ p.stage = "read" /\ p \notin pending'
     /\ out'.handler = "none")
    => /\ out'.to = Nobody
       /\ \E q \in pending' :
            /\ q.kind = "join-room" /\ q.stage = "reply"
            /\ q.sock = p.sock /\ q.room = p.room
            /\ q.found = (\E i \in DOMAIN rooms : rooms[i].code = p.room)
            /\ \A i \in DOMAIN rooms :
                 rooms[i].code = p.room => q.imageData = rooms[i].canvasData

\* The join-room goes on after its lookup: it sends canvas-data exactly when
\* the lookup found a room with a canvas, with that canvas, and the one packet
\* goes to the joining connection.
JoinSync ==
  \A p \in pending :
    (p.kind = "join-room" /\ p.stage = "reply" /\ p \notin pending'
     /\ out'.handler = "join-room/sync")
    => /\ out'.event = "canvas-data" <=> (p.found /\ p.imageData # <<>>)
       /\ out'.event = "canvas-data"
            => /\ out'.payload = [imageData |-> p.imageData]
               /\ sock[p.sock] = "open" => out'.to[p.sock] = 1
       /\ out'.event # "canvas-data" => out'.event = "none"
       /\ \A t \in Sockets \ {p.sock} : out'.to[t] = 0

\* C19: a join-room for R sends canvas-data to the joining connection alone,
\* and exactly when the store holds a room of code R with a canvas that is not
\* empty when it is looked up; otherwise the join sends nothing.
C19_PrivateSync == []JoinSilent /\ [][JoinLookup /\ JoinSync]_vars

\* A joiner got the stored canvas while its peer in the room got nothing.
C19_Witness ==
  /\ out.handler = "join-room/sync" /\ out.event = "canvas-data"
  /\ out.to[out.sock] = 1
  /\ \E t \in adapter[out.room] : t # out.sock /\ out.to[t] = 0

\* The lookup of a join-room fails: nothing is sent, no error either, and the
\* connection, unless it has closed, is in the room as before.
JoinFailureKeeps ==
  \A p \in pending :
    ( /\ p.kind = "join-room" /\ p.stage = "read" /\ p \notin pending'
      /\ out'.handler = "join-room/catch" )
    => /\ out'.event = "none" /\ out'.to = Nobody
       /\ adapter' = adapter
       /\ sock[p.sock] = "open" => p.sock \in adapter'[p.room]
       /\ pending' = pending \ {p}

\* Whatever became of the lookups, a relayed message goes to every other
\* connection registered in its room.
RelayReachesRegistered ==
  ( /\ out.handler \in {"drawing-data", "canvas-data", "clear-canvas"}
    /\ out.msg.roomCode # Undefined )
    => \A t \in adapter[out.room] \ {out.sock} : out.to[t] = 1

\* C20: a join-room whose store lookup fails leaves the connection registered
\* in the room, so that it gets the later broadcasts of the room and its own
\* reach the peers; it is sent no canvas-data, and nobody is sent an error.
C20_JoinSurvivesFailure ==
  []RelayReachesRegistered /\ [][JoinFailureKeeps]_vars

\* The lookup of a join-room has failed; the connection is in the room with a
\* peer, and the store holds a canvas it was not sent.
C20_Witness ==
  /\ out.handler = "join-room/catch"
  /\ sock[out.sock] = "open" /\ out.sock \in adapter[out.room]
  /\ \E t \in adapter[out.room] : t # out.sock
  /\ \E i \in DOMAIN rooms :
       rooms[i].code = out.room /\ rooms[i].canvasData # <<>>

\* No connection is registered under a name that holds nothing.
NoBlankRoom == \A k \in RoomKeys : Blank(k) => adapter[k] = {}

\* A join-room with a code that holds nothing changes no room set.
BlankJoinNoop ==
  (out'.handler = "join-room" /\ out' # out /\ Blank(out'.msg.roomCode))
    => adapter' = adapter

\* A message relayed under a code that holds nothing reaches nobody.
BlankRelayNoop ==
  (out.handler = "drawing-data" /\ Blank(out.msg.roomCode)) => out.to = Nobody

\* C21: a join-room whose code is empty after normalization registers the
\* connection in no room set: the registry is as before and no later
\* broadcast reaches the connection through that join.
C21_BlankJoinRejected ==
  [](NoBlankRoom /\ BlankRelayNoop) /\ [][BlankJoinNoop]_vars

\* The store write of a canvas-data with this imageData is in flight.
WriteInFlight(imageData) ==
  \E p \in pending :
    p.kind = "canvas-data" /\ p.stage = "write" /\ p.imageData = imageData

\* The store write has completed and the stored room holds the imageData.
WriteLanded(imageData) ==
  /\ ~WriteInFlight(imageData)
  /\ \E i \in DOMAIN rooms :
       rooms[i].code = StoredCode /\ rooms[i].canvasData = imageData

\* C22: with a fair event loop and a store that does not fail, the imageData
\* of every canvas-data for a stored room is eventually written to the room's
\* canvasData, also when the sender disconnects right after sending: a
\* disconnect cancels no write in flight.
C22_WriteCompletes ==
  \A i \in Images : WriteInFlight(i) ~> WriteLanded(i)

\* A store write was applied when the connection that sent it, the only one
\* there was, had already closed.
C22_Witness ==
  /\ out = NoOut /\ pending = {}
  /\ \E s \in Sockets : sock[s] = "closed"
  /\ \A s \in Sockets : sock[s] # "open"
  /\ \E i \in DOMAIN rooms : rooms[i].canvasData # <<>>

\* C23: the stored canvas a join-room sends is never older than a canvas-data
\* the joining connection got from a peer while the lookup was pending: when
\* the connection holds the newest canvas relayed for the room, the canvas the
\* join sends it afterwards is that one.
C23_SyncNotOvertaken ==
  [][\A p \in pending :
       ( /\ p.kind = "join-room" /\ p.stage = "reply" /\ p \notin pending'
         /\ out'.handler = "join-room/sync"
         /\ p.newer
         /\ out'.event = "canvas-data" /\ out'.to[p.sock] = 1 )
       => out'.payload = [imageData |-> LastCanvas(p.room)]]_vars

====
